---- MODULE Spec2Model ----
(***************************************************************************)
(* Model of src/auto_dl.py: the StreamDownloader class.                    *)
(*                                                                         *)
(*   Spec          run() with its thread pool, download_stream,            *)
(*                 download_caption, run_ffmpeg_command, get_total_duration *)
(*   SpecResolver  extract_urls scanning the script blocks of one page     *)
(*   SpecFind      find_source applied to parsed JSON values               *)
(*                                                                         *)
(* Python values are modelled as records [t, s, kv]: t is the type tag,    *)
(* s the text of a string or number, kv the entries of a dict (key, val)   *)
(* or the items of a list (key = "").  None is the JSON null.  An          *)
(* exception travelling up the call stack is the value TypeError.          *)
(***************************************************************************)
EXTENDS Integers, Sequences, FiniteSets, TLC

\* ------------------------------------------------------------------ bounds
MaxNodes == 4      \* nodes of a parsed JSON value given to find_source
MaxBlocks == 3     \* script blocks on one page
NumTasks == 2      \* tasks in the task file
MaxWorkers == 2    \* largest --workers value
MaxLines == 2      \* stderr lines the transcode process prints
MaxTitle == 4      \* characters of a task title given to the file naming

\* ------------------------------------------------------------ JSON values
JNull == [t |-> "null", s |-> "", kv |-> <<>>]
JStr(x) == [t |-> "str", s |-> x, kv |-> <<>>]
JNum(x) == [t |-> "num", s |-> x, kv |-> <<>>]
JList(items) == [t |-> "list", s |-> "", kv |-> items]
JDict(entries) == [t |-> "dict", s |-> "", kv |-> entries]
KV(k, v) == [key |-> k, val |-> v]
Item(v) == [key |-> "", val |-> v]

None == JNull
TypeError == [t |-> "TypeError", s |-> "", kv |-> <<>>]

IsExc(v) == v.t = "TypeError"

\* Python truth value of a JSON value (used by `if result:` and by `or`)
Truthy(v) ==
    CASE v.t = "null" -> FALSE
      [] v.t = "str" -> v.s # ""
      [] v.t = "num" -> v.s # "0"
      [] v.t = "list" -> v.kv # <<>>
      [] v.t = "dict" -> v.kv # <<>>
      [] OTHER -> FALSE

\* a or b
PyOr(a, b) == IF Truthy(a) THEN a ELSE b

\* key in obj, for a dict obj
HasKey(obj, k) == \E i \in DOMAIN obj.kv : obj.kv[i].key = k

\* obj[key], for a dict obj that has the key
Get(obj, k) == obj.kv[CHOOSE i \in DOMAIN obj.kv : obj.kv[i].key = k].val

\* ------------------------------------------------------------ find_source
RECURSIVE find_source(_)
RECURSIVE find_source_loop(_, _)

\* for value in obj.values(): result = find_source(value); if result: return result
find_source_loop(kv, i) ==
    IF i > Len(kv) THEN None
    ELSE LET result == find_source(kv[i].val)
         IN IF Truthy(result) THEN result ELSE find_source_loop(kv, i + 1)

\* A plausible slip: the recursion returns the first nested result whatever
\* its truth value.
find_source_first(obj) ==
    LET RECURSIVE walk(_)
        RECURSIVE walkLoop(_, _)
        walkLoop(kv, i) ==
            IF i > Len(kv) THEN None
            ELSE LET result == walk(kv[i].val)
                 IN IF result # None THEN result ELSE walkLoop(kv, i + 1)
        walk(o) ==
            IF o.t = "dict"
            THEN IF HasKey(o, "source") THEN Get(o, "source") ELSE walkLoop(o.kv, 1)
            ELSE IF o.t = "list" THEN walkLoop(o.kv, 1) ELSE None
    IN walk(obj)

find_source(obj) ==
    IF obj.t = "dict"
    THEN IF HasKey(obj, "source")
         THEN Get(obj, "source")
         ELSE find_source_loop(obj.kv, 1)
    ELSE IF obj.t = "list"
         THEN find_source_loop(obj.kv, 1)
         ELSE None

\* ---------------------------------------------------------- find_captions
\* 'src' in x : "T", "F", or "E" when x does not support `in`
StrWithSrc == {"src"}
PyInSrc(x) ==
    CASE x.t = "dict" -> IF HasKey(x, "src") THEN "T" ELSE "F"
      [] x.t = "str" -> IF x.s \in StrWithSrc THEN "T" ELSE "F"
      [] x.t = "list" -> IF \E i \in DOMAIN x.kv : x.kv[i].val = JStr("src") THEN "T" ELSE "F"
      [] OTHER -> "E"

\* x['src'], evaluated only after 'src' in x was true
PyIndexSrc(x) == IF x.t = "dict" THEN Get(x, "src") ELSE TypeError

\* lines 79-86: the body of `if 'captions' in obj and isinstance(.., list)`;
\* None stands for "fell through without returning"
captions_entry(captions) ==
    LET n == Len(captions)
        c0 == captions[1].val
        c1 == captions[2].val
    IN IF n >= 2
       THEN CASE PyInSrc(c0) = "E" -> TypeError
              [] PyInSrc(c0) = "T" ->
                   (CASE PyInSrc(c1) = "E" -> TypeError
                      [] PyInSrc(c1) = "T" ->
                           IF IsExc(PyIndexSrc(c0)) \/ IsExc(PyIndexSrc(c1))
                           THEN TypeError
                           ELSE PyIndexSrc(c0)
                      [] OTHER -> PyIndexSrc(c0))
              [] OTHER -> None
       ELSE IF n >= 1
            THEN CASE PyInSrc(c0) = "E" -> TypeError
                   [] PyInSrc(c0) = "T" -> PyIndexSrc(c0)
                   [] OTHER -> None
            ELSE None

RECURSIVE find_captions(_)
RECURSIVE find_captions_loop(_, _)

find_captions_loop(kv, i) ==
    IF i > Len(kv) THEN None
    ELSE LET result == find_captions(kv[i].val)
         IN IF IsExc(result) THEN result
            ELSE IF Truthy(result) THEN result
            ELSE find_captions_loop(kv, i + 1)

\* A value returned at lines 82-86 leaves the function whatever its truth
\* value; only "fell through" continues with the loop over obj.values().
find_captions(obj) ==
    IF obj.t = "dict"
    THEN IF HasKey(obj, "captions") /\ Get(obj, "captions").t = "list"
         THEN LET caps == Get(obj, "captions").kv
                  hit == captions_entry(caps)
                  returns ==
                      /\ Len(caps) >= 1
                      /\ \/ IsExc(hit)
                         \/ PyInSrc(caps[1].val) = "T"
              IN IF returns THEN hit ELSE find_captions_loop(obj.kv, 1)
         ELSE find_captions_loop(obj.kv, 1)
    ELSE IF obj.t = "list"
         THEN find_captions_loop(obj.kv, 1)
         ELSE None

\* ----------------------------------------------------------- extract_urls
\* One <script type="application/json"> block as BeautifulSoup hands it over:
\*   "json"      script.string is text that json.loads parses to `data`
\*   "badjson"   script.string is text json.loads rejects (JSONDecodeError)
\*   "nostring"  script.string is None (an empty tag): json.loads raises TypeError
JsonBlock(d) == [kind |-> "json", data |-> d]
BadJsonBlock == [kind |-> "badjson", data |-> JNull]
NoStringBlock == [kind |-> "nostring", data |-> JNull]

\* The outcome of requests.get + raise_for_status + BeautifulSoup
RequestException == [status |-> "RequestException", blocks |-> <<>>]
PageOf(blocks) == [status |-> "ok", blocks |-> blocks]

\* One iteration of the loop at lines 57-107.  ctl: "next" (loop goes on),
\* "return" (line 104), "except" (an exception json.JSONDecodeError does not
\* cover leaves the loop for the handler at line 114).
ScanStep(block, src, cap) ==
    CASE block.kind = "nostring" -> [src |-> src, cap |-> cap, ctl |-> "except"]
      [] block.kind = "badjson" -> [src |-> src, cap |-> cap, ctl |-> "next"]
      [] OTHER ->
           LET s2 == PyOr(src, find_source(block.data))
               c2 == IF Truthy(cap) THEN cap ELSE find_captions(block.data)
           IN IF IsExc(c2) THEN [src |-> s2, cap |-> cap, ctl |-> "except"]
              ELSE IF Truthy(s2) /\ Truthy(c2)
                   THEN [src |-> s2, cap |-> c2, ctl |-> "return"]
                   ELSE [src |-> s2, cap |-> c2, ctl |-> "next"]

\* What extract_urls hands back: the pair (src, cap), and in err the
\* diagnostic it logged ("request": line 112, "parse": line 115).
Resolved(src, cap, err) == [src |-> src, cap |-> cap, err |-> err]

RECURSIVE scan_blocks(_, _, _, _)
scan_blocks(blocks, i, src, cap) ==
    IF i > Len(blocks) THEN Resolved(src, cap, "none")
    ELSE LET r == ScanStep(blocks[i], src, cap)
         IN CASE r.ctl = "except" -> Resolved(None, None, "parse")
              [] r.ctl = "return" -> Resolved(r.src, r.cap, "none")
              [] OTHER -> scan_blocks(blocks, i + 1, r.src, r.cap)

extract_urls(resp) ==
    IF resp.status = "RequestException" THEN Resolved(None, None, "request")
    ELSE scan_blocks(resp.blocks, 1, None, None)

\* ------------------------------------------------------ sanitize_filename
\* A str is a sequence of one-character strings.
FullWidthBar == "U+FF5C"
Reserved == {"\\", "/", ":", "*", "?", "\"", "<", ">", "|"}
StripChars == {".", " "}

RECURSIVE lstrip(_)
lstrip(f) == IF f # <<>> /\ Head(f) \in StripChars THEN lstrip(Tail(f)) ELSE f
RECURSIVE rstrip(_)
rstrip(f) ==
    IF f # <<>> /\ f[Len(f)] \in StripChars THEN rstrip(SubSeq(f, 1, Len(f) - 1)) ELSE f

\* `now` is datetime.now().strftime('%Y%m%d_%H%M%S') at the time of the call,
\* kept as one element after the six characters of "video_"
sanitize_filename(filename, now) ==
    LET replaced == [i \in DOMAIN filename |->
                        IF filename[i] = FullWidthBar THEN "|" ELSE filename[i]]
        subbed == [i \in DOMAIN replaced |->
                      IF replaced[i] \in Reserved THEN "_" ELSE replaced[i]]
        stripped == rstrip(lstrip(subbed))
    IN IF stripped = <<>> THEN <<"v", "i", "d", "e", "o", "_", now>> ELSE stripped

\* title[:3]
FirstThree(ttl) == SubSeq(ttl, 1, IF Len(ttl) < 3 THEN Len(ttl) ELSE 3)

\* download_caption lines 126-127: f"{safe_title}.vtt" (subtitle_dir left out)
CaptionFileName(ttl, now) == sanitize_filename(FirstThree(ttl), now) \o <<".vtt">>

\* ------------------------------------------------------ get_total_duration
\* What the probe `ffmpeg -i url` produced:
\*   "error"     Popen or communicate raised
\*   "nomatch"   stderr holds no "Duration: HH:MM:SS.ff"
\*   "duration"  stderr holds "Duration: h:m:s.ff"
Stamp(h, m, s) == [h |-> h, m |-> m, s |-> s]

\* hours * 3600 + minutes * 60 + seconds (lines 213-214 and 263-264)
ToSeconds(st) == st.h * 3600 + st.m * 60 + st.s

\* returns [none |-> TRUE] for None, else the whole seconds
get_total_duration(probe) ==
    IF probe.kind = "duration"
    THEN [none |-> FALSE, secs |-> ToSeconds(probe.stamp)]
    ELSE [none |-> TRUE, secs |-> 0]

\* A plausible slip: the `is None` test at line 233 is dropped.
DurationCheckDropped(total_duration) == FALSE

\* line 233: if total_duration is None
DurationIsNone(total_duration) == total_duration.none

\* ------------------------------------------------------ run_ffmpeg_command
\* pbar.n is a float: kept exactly as num / den
Ratio(n, d) == [num |-> n, den |-> d]
PbarStart == Ratio(0, 1)

\* One iteration of the loop at lines 257-270 on one stderr line.
\* exc: an exception left the loop for the handler at 282.
ReadLine(line, total_secs, pbar) ==
    CASE line.kind = "undecodable" -> [pbar |-> pbar, exc |-> TRUE]
      [] line.kind = "time" ->
           IF total_secs = 0
           THEN [pbar |-> pbar, exc |-> TRUE]
           ELSE [pbar |-> Ratio(ToSeconds(line.stamp) * 100, total_secs), exc |-> FALSE]
      [] OTHER -> [pbar |-> pbar, exc |-> FALSE]

\* The loop over all the lines the process prints, then lines 272-284:
\* ok is the value returned, waited tells whether process.wait() was reached.
RECURSIVE read_lines(_, _, _, _)
read_lines(lines, i, total_secs, pbar) ==
    IF i > Len(lines) THEN [pbar |-> pbar, exc |-> FALSE]
    ELSE LET r == ReadLine(lines[i], total_secs, pbar)
         IN IF r.exc THEN r ELSE read_lines(lines, i + 1, total_secs, r.pbar)

\* lines 274-280
ReturnValue(return_code) == return_code = 0

\* ---------------------------------------------------------- download_stream
\* A plausible slip: the fallback to the page URL is lost.
MediaUrlNoFallback(src, original_url) == src

\* line 297: url = source_url or original_url
MediaUrl(src, original_url) == PyOr(src, original_url)

\* line 299: if caption_url
WantsCaption(cap) == Truthy(cap)

\* A plausible slip: the existence test looks at the wrong path.
PathExistsNever(dir, path) == FALSE

\* os.path.exists(path) in a directory listing: path -> [pre, writers]
PathExists(dir, path) == dir[path].pre \/ dir[path].writers # <<>>

\* ------------------------------------------------------- inputs: JSON trees
FindKeys == {"source", "x"}
FindLeaves == {JNull, JStr(""), JStr("u1"), JStr("u2")}

\* all sequences of distinct keys of length n
RECURSIVE KeySeqs(_)
KeySeqs(n) ==
    IF n = 0 THEN {<<>>}
    ELSE {Append(ks, k) : ks \in {q \in KeySeqs(n - 1) : TRUE}, k \in FindKeys}

DistinctKeySeqs(n) ==
    {ks \in KeySeqs(n) : \A i, j \in 1..n : i # j => ks[i] # ks[j]}

\* The JSON values with exactly n nodes, for n = 1..MaxNodes, built level by
\* level: trees[n] is the set of values with n nodes, forests[m + 1] the set
\* of sequences of values with m nodes in all.
SizeOneTrees == FindLeaves \cup {JList(<<>>), JDict(<<>>)}

ForestsOfSize(tb, m) ==
    UNION {{<<tr>> \o f : tr \in tb.trees[j], f \in tb.forests[m - j + 1]} : j \in 1..m}

AllKeySeqs == UNION {DistinctKeySeqs(n) : n \in 0..Cardinality(FindKeys)}

TreesFromForests(fs) ==
    {JList([i \in DOMAIN f |-> Item(f[i])]) : f \in fs}
        \cup {JDict([i \in DOMAIN p[1] |-> KV(p[2][i], p[1][i])]) :
                 p \in {q \in fs \X AllKeySeqs : Len(q[1]) = Len(q[2])}}

RECURSIVE BuildTrees(_, _)
BuildTrees(tb, n) ==
    IF Len(tb.trees) >= n THEN tb
    ELSE LET fs == ForestsOfSize(tb, Len(tb.trees))
         IN BuildTrees([trees |-> Append(tb.trees, TreesFromForests(fs)),
                        forests |-> Append(tb.forests, fs)], n)

\* the JSON values with at most n nodes
TreesUpTo(n) ==
    LET tb == BuildTrees([trees |-> <<SizeOneTrees>>, forests |-> <<{<<>>}>>], n)
    IN UNION {tb.trees[k] : k \in 1..n}

\* ------------------------------------------------------- inputs: pages
SrcChoices == {<<>>, <<KV("source", JStr(""))>>, <<KV("source", JStr("u1"))>>,
               <<KV("source", JStr("u2"))>>}
CapChoices == {<<>>,
               <<KV("captions", JList(<<Item(JDict(<<KV("src", JStr("c1"))>>)),
                                        Item(JDict(<<KV("src", JStr("c2"))>>))>>))>>,
               <<KV("captions", JList(<<Item(JDict(<<KV("src", JStr("c2"))>>))>>))>>,
               <<KV("captions", JList(<<Item(JNum("1"))>>))>>}
PageBlocks ==
    {JsonBlock(JDict(sc \o cc)) : sc \in SrcChoices, cc \in CapChoices}
        \cup {BadJsonBlock, NoStringBlock}

\* ------------------------------------------- inputs: tasks, probes, lines
\* A task as json.load returns it: a dict that may lack a key.
Task(u, ttl) == [has_url |-> TRUE, has_title |-> TRUE, url |-> u, title |-> ttl]
TaskNoTitle(u) == [has_url |-> TRUE, has_title |-> FALSE, url |-> u, title |-> <<>>]
TaskNoUrl(ttl) == [has_url |-> FALSE, has_title |-> TRUE, url |-> "", title |-> ttl]

TaskPool ==
    {Task("http://x/page", <<"E", "p", FullWidthBar, "1">>),
     TaskNoTitle("http://x/page3"),
     TaskNoUrl(<<"b">>)}

Clock == {"20240101_000000"}

\* the files the runs can touch
Runnable == {tk \in TaskPool : tk.has_title /\ tk.has_url}
VideoPaths == {sanitize_filename(tk.title, now) : tk \in Runnable, now \in Clock}
CaptionPaths == {sanitize_filename(FirstThree(tk.title), now) : tk \in Runnable, now \in Clock}

\* the pages a worker can be served
WorkerPages ==
    {RequestException,
     PageOf(<<NoStringBlock>>),
     PageOf(<<JsonBlock(JDict(<<KV("source", JStr("http://cdn/m.m3u8")),
                                KV("captions", JList(<<Item(JDict(<<KV("src", JStr("http://cdn/c.vtt"))>>))>>))>>))>>)}

\* "Duration: h:m:s.ff" the probe can print, "time=h:m:s.ff" the transcode can
DurationStamps == {Stamp(0, 0, 0), Stamp(1, 2, 3)}
TimeStamps == {Stamp(0, 31, 1), Stamp(1, 2, 3), Stamp(2, 0, 0)}

ProbeOutcomes ==
    {[kind |-> "error", stamp |-> Stamp(0, 0, 0)], [kind |-> "nomatch", stamp |-> Stamp(0, 0, 0)]}
        \cup {[kind |-> "duration", stamp |-> st] : st \in DurationStamps}

\* one stderr line of the transcode: a "time=h:m:s.ff" marker, any other
\* text, or bytes that are not UTF-8
StderrLines ==
    {[kind |-> "time", stamp |-> st] : st \in TimeStamps}
        \cup {[kind |-> "other", stamp |-> Stamp(0, 0, 0)],
              [kind |-> "undecodable", stamp |-> Stamp(0, 0, 0)]}

\* every stderr output of at most MaxLines lines
StderrOutputs == UNION {[1..n -> StderrLines] : n \in 0..MaxLines}

ExitCodes == {0, 1}

\* ------------------------------------------------------------------ state
VARIABLES
    \* SpecFind: one call of find_source
    data,           \* the parsed JSON value
    fpc,            \* "idle" | "call" | "returned"
    found,          \* the value find_source returned
    \* SpecResolver: one call of extract_urls
    resp,           \* what the page fetch produced
    rpc,            \* "idle" | "fetch" | "loop" | "returned"
    idx,            \* 1-based index of the next script block
    source_url,     \* local source_url
    caption_url,    \* local caption_url
    scanned,        \* number of blocks the loop body has run on
    ret,            \* the pair extract_urls returned
    \* SpecRunner: one call of run_ffmpeg_command
    fpos,           \* "idle" | "probe" | "spawn" | "read" | "wait" | "returned"
    total_duration, \* local total_duration
    pbar_n,         \* pbar.n
    published,      \* the values given to the progress bar, in order
    nread,          \* stderr lines read so far
    process,        \* the transcode process: "none" | "running" | "exited"
    return_code,    \* its exit code once it has exited
    ok,             \* the value run_ffmpeg_command returned
    raised,         \* the exception the handler at 282 caught: "none" | "spawn" | "decode" | "zerodiv"
    \* Spec: run() and its worker threads
    tasks,          \* load_tasks(): the task list
    max_workers,    \* self.max_workers
    videos,         \* output_dir: path -> [pre |-> existed before run, writers |-> tasks that wrote it]
    subs,           \* subtitle_dir, likewise
    mpc,            \* main thread: "load" | "collect" | "unwind" | "done" | "escaped"
    success,        \* local success of run
    aggregated,     \* futures as_completed has yielded and the loop body has handled
    summary,        \* the line logged at 355: <<success, total>>, <<>> before
    fut,            \* per task, its future: "none" | "pending" | "running" | "true" | "false" | "raised"
    wpc,            \* per task, where its download_stream call stands
    loc,            \* per task, the locals of its download_stream call
    proc,           \* per task, its transcode process
    calls,          \* per task, what it did that can be seen from outside, in order
    \* SpecNamer: the file names derived from one title
    title,          \* task['title']
    npc,            \* "idle" | "call" | "returned"
    safe_title,     \* local safe_title of download_stream
    caption_file    \* the name download_caption gives the caption file

findVars == <<data, fpc, found>>
resolverVars == <<resp, rpc, idx, source_url, caption_url, scanned, ret>>
runnerVars == <<fpos, total_duration, pbar_n, published, nread, process, return_code, ok, raised>>
poolVars == <<tasks, max_workers, videos, subs, mpc, success, aggregated, summary,
              fut, wpc, loc, proc, calls>>
namerVars == <<title, npc, safe_title, caption_file>>
vars == <<findVars, resolverVars, runnerVars, poolVars, namerVars>>

NoTotal == [none |-> TRUE, secs |-> 0]
NoFile == [pre |-> FALSE, writers |-> <<>>]
NoLocals == [safe_title |-> <<>>, url |-> None, caption_url |-> None,
             caption_path |-> <<>>, total |-> NoTotal]
NoProcess == [state |-> "none", path |-> <<>>, rc |-> 0]

FindIdle == data = JNull /\ fpc = "idle" /\ found = None
ResolverIdle ==
    /\ resp = PageOf(<<>>) /\ rpc = "idle" /\ idx = 1
    /\ source_url = None /\ caption_url = None /\ scanned = 0
    /\ ret = <<None, None>>
RunnerIdle ==
    /\ fpos = "idle" /\ total_duration = NoTotal /\ pbar_n = PbarStart
    /\ published = <<>> /\ nread = 0 /\ process = "none" /\ return_code = 0
    /\ ok = FALSE /\ raised = "none"
NamerIdle == title = <<>> /\ npc = "idle" /\ safe_title = <<>> /\ caption_file = <<>>
PoolIdle ==
    /\ tasks = <<>> /\ max_workers = 1
    /\ videos = [pth \in VideoPaths |-> NoFile]
    /\ subs = [pth \in CaptionPaths |-> NoFile]
    /\ mpc = "idle" /\ success = 0 /\ aggregated = {} /\ summary = <<>>
    /\ fut = <<>> /\ wpc = <<>> /\ loc = <<>> /\ proc = <<>> /\ calls = <<>>

\* --------------------------------------------------------------- SpecFind
\* find_source is applied to every JSON value with at most MaxNodes nodes,
\* to each of them as the only item of a list, and to every two-item list of
\* values with at most MaxNodes - 2 nodes.
InitFind ==
    /\ LET small == TreesUpTo(MaxNodes)
           tiny == TreesUpTo(MaxNodes - 2)
       IN \/ data \in small
          \/ \E a \in small : data = JList(<<Item(a)>>)
          \/ \E a, b \in tiny : data = JList(<<Item(a), Item(b)>>)
    /\ fpc = "call"
    /\ found = None
    /\ ResolverIdle /\ RunnerIdle /\ PoolIdle /\ NamerIdle

CallFindSource ==
    /\ fpc = "call"
    /\ found' = find_source(data)
    /\ fpc' = "returned"
    /\ UNCHANGED <<data, resolverVars, runnerVars, poolVars, namerVars>>

NextFind == CallFindSource

\* ----------------------------------------------------------- SpecResolver
InitResolver ==
    /\ \/ resp = RequestException
       \/ \E n \in 0..MaxBlocks : \E bs \in [1..n -> PageBlocks] : resp = PageOf(bs)
    /\ rpc = "fetch"
    /\ idx = 1
    /\ source_url = None
    /\ caption_url = None
    /\ scanned = 0
    /\ ret = <<None, None>>
    /\ FindIdle /\ RunnerIdle /\ PoolIdle /\ NamerIdle

\* lines 46-55, and the handler at 111-113 when the request fails
FetchPage ==
    /\ rpc = "fetch"
    /\ IF resp.status = "RequestException"
       THEN rpc' = "returned" /\ ret' = <<None, None>>
       ELSE rpc' = "loop" /\ ret' = ret
    /\ UNCHANGED <<resp, idx, source_url, caption_url, scanned>>
    /\ UNCHANGED <<findVars, runnerVars, poolVars, namerVars>>

\* one iteration of the loop at lines 57-107
ScanBlock ==
    /\ rpc = "loop"
    /\ idx <= Len(resp.blocks)
    /\ LET r == ScanStep(resp.blocks[idx], source_url, caption_url)
       IN /\ scanned' = scanned + 1
          /\ CASE r.ctl = "except" ->
                    /\ rpc' = "returned"
                    /\ ret' = <<None, None>>
                    /\ UNCHANGED <<idx, source_url, caption_url>>
               [] r.ctl = "return" ->
                    /\ rpc' = "returned"
                    /\ ret' = <<r.src, r.cap>>
                    /\ source_url' = r.src
                    /\ caption_url' = r.cap
                    /\ UNCHANGED idx
               [] OTHER ->
                    /\ idx' = idx + 1
                    /\ source_url' = r.src
                    /\ caption_url' = r.cap
                    /\ UNCHANGED <<rpc, ret>>
    /\ UNCHANGED <<resp, findVars, runnerVars, poolVars, namerVars>>

\* line 109
ScanEnd ==
    /\ rpc = "loop"
    /\ idx > Len(resp.blocks)
    /\ rpc' = "returned"
    /\ ret' = <<source_url, caption_url>>
    /\ UNCHANGED <<resp, idx, source_url, caption_url, scanned>>
    /\ UNCHANGED <<findVars, runnerVars, poolVars, namerVars>>

NextResolver == FetchPage \/ ScanBlock \/ ScanEnd

SpecFind == InitFind /\ [][NextFind]_vars
SpecResolver == InitResolver /\ [][NextResolver]_vars

\* The stepwise loop and the operator the worker threads use agree.
ResolverAgrees ==
    rpc = "returned" => ret = <<extract_urls(resp).src, extract_urls(resp).cap>>

\* ------------------------------------------------------------- SpecRunner
\* One call of run_ffmpeg_command, line by line.
InitRunner ==
    /\ fpos = "probe"
    /\ total_duration = NoTotal
    /\ pbar_n = PbarStart
    /\ published = <<>>
    /\ nread = 0
    /\ process = "none"
    /\ return_code = 0
    /\ ok = FALSE
    /\ raised = "none"
    /\ FindIdle /\ ResolverIdle /\ PoolIdle /\ NamerIdle

\* lines 232-235
RunProbe ==
    /\ fpos = "probe"
    /\ \E probe \in ProbeOutcomes :
          LET total == get_total_duration(probe)
          IN /\ total_duration' = total
             /\ IF DurationIsNone(total)
                THEN fpos' = "returned" /\ ok' = FALSE
                ELSE fpos' = "spawn" /\ ok' = ok
    /\ UNCHANGED <<pbar_n, published, nread, process, return_code, raised>>
    /\ UNCHANGED <<findVars, resolverVars, poolVars, namerVars>>

\* lines 237-255: Popen starts the process or raises
SpawnTranscode ==
    /\ fpos = "spawn"
    /\ \/ /\ process' = "running"
          /\ fpos' = "read"
          /\ UNCHANGED <<ok, raised>>
       \/ /\ raised' = "spawn"
          /\ fpos' = "returned"
          /\ ok' = FALSE
          /\ UNCHANGED process
    /\ UNCHANGED <<total_duration, pbar_n, published, nread, return_code>>
    /\ UNCHANGED <<findVars, resolverVars, poolVars, namerVars>>

\* one iteration of the loop at lines 257-270
ReadStderrLine ==
    /\ fpos = "read"
    /\ nread < MaxLines
    /\ \E line \in StderrLines :
          LET r == ReadLine(line, total_duration.secs, pbar_n)
          IN IF r.exc
             THEN /\ raised' = IF line.kind = "undecodable" THEN "decode" ELSE "zerodiv"
                  /\ fpos' = "returned"
                  /\ ok' = FALSE
                  /\ UNCHANGED <<pbar_n, published>>
             ELSE /\ pbar_n' = r.pbar
                  /\ published' = IF line.kind = "time" THEN Append(published, r.pbar)
                                  ELSE published
                  /\ UNCHANGED <<fpos, ok, raised>>
    /\ nread' = nread + 1
    /\ UNCHANGED <<total_duration, process, return_code>>
    /\ UNCHANGED <<findVars, resolverVars, poolVars, namerVars>>

\* the loop ends when the process has closed its stderr; line 272
EndOfStderr ==
    /\ fpos = "read"
    /\ process = "exited"
    /\ fpos' = "wait"
    /\ UNCHANGED <<total_duration, pbar_n, published, nread, process, return_code, ok, raised>>
    /\ UNCHANGED <<findVars, resolverVars, poolVars, namerVars>>

\* lines 274-280
WaitForExit ==
    /\ fpos = "wait"
    /\ ok' = ReturnValue(return_code)
    /\ fpos' = "returned"
    /\ UNCHANGED <<total_duration, pbar_n, published, nread, process, return_code, raised>>
    /\ UNCHANGED <<findVars, resolverVars, poolVars, namerVars>>

\* the transcode process ends, whether or not anyone still reads it
ProcessExits ==
    /\ process = "running"
    /\ process' = "exited"
    /\ \E rc \in ExitCodes : return_code' = rc
    /\ UNCHANGED <<fpos, total_duration, pbar_n, published, nread, ok, raised>>
    /\ UNCHANGED <<findVars, resolverVars, poolVars, namerVars>>

NextRunner ==
    \/ RunProbe
    \/ SpawnTranscode
    \/ ReadStderrLine
    \/ EndOfStderr
    \/ WaitForExit
    \/ ProcessExits

SpecRunner == InitRunner /\ [][NextRunner]_vars

\* -------------------------------------------------------------------- Spec
\* run(): the main thread, the pool's worker threads each running
\* download_stream for one task, and the transcode processes they start.
TaskIds == DOMAIN tasks

Event(op, arg) == [op |-> op, arg |-> arg]
HasOp(t, op) == \E i \in DOMAIN calls[t] : calls[t][i].op = op

Finished(t) == fut[t] \in {"true", "false", "raised"}

Init ==
    /\ \E n \in 0..NumTasks : tasks \in [1..n -> TaskPool]
    /\ max_workers \in 1..MaxWorkers
    /\ \E pre \in SUBSET VideoPaths :
          videos = [pth \in VideoPaths |-> [pre |-> pth \in pre, writers |-> <<>>]]
    /\ \E pre \in SUBSET CaptionPaths :
          subs = [pth \in CaptionPaths |-> [pre |-> pth \in pre, writers |-> <<>>]]
    /\ mpc = "load"
    /\ success = 0
    /\ aggregated = {}
    /\ summary = <<>>
    /\ fut = [t \in DOMAIN tasks |-> "none"]
    /\ wpc = [t \in DOMAIN tasks |-> "none"]
    /\ loc = [t \in DOMAIN tasks |-> NoLocals]
    /\ proc = [t \in DOMAIN tasks |-> NoProcess]
    /\ calls = [t \in DOMAIN tasks |-> <<>>]
    /\ FindIdle /\ ResolverIdle /\ RunnerIdle /\ NamerIdle

\* download_stream returns `value` ("true" | "false") or raises ("raised"):
\* the future is completed and the call's locals are gone
Completes(t, value) ==
    /\ fut' = [fut EXCEPT ![t] = value]
    /\ wpc' = [wpc EXCEPT ![t] = "done"]
    /\ loc' = [loc EXCEPT ![t] = NoLocals]

\* lines 331-344: load the tasks, log, submit them all to the pool
SubmitAll ==
    /\ mpc = "load"
    /\ IF tasks = <<>>
       THEN mpc' = "done" /\ fut' = fut
       ELSE mpc' = "collect" /\ fut' = [t \in TaskIds |-> "pending"]
    /\ UNCHANGED <<tasks, max_workers, videos, subs, success, aggregated, summary,
                   wpc, loc, proc, calls>>
    /\ UNCHANGED <<findVars, resolverVars, runnerVars, namerVars>>

\* a worker thread takes the oldest queued task
WorkerTakes(t) ==
    /\ fut[t] = "pending"
    /\ \A u \in TaskIds : u < t => fut[u] # "pending"
    /\ Cardinality({u \in TaskIds : fut[u] = "running"}) < max_workers
    /\ fut' = [fut EXCEPT ![t] = "running"]
    /\ wpc' = [wpc EXCEPT ![t] = "resolve"]
    /\ UNCHANGED <<tasks, max_workers, videos, subs, mpc, success, aggregated, summary,
                   loc, proc, calls>>
    /\ UNCHANGED <<findVars, resolverVars, runnerVars, namerVars>>

\* lines 292-300: read the task, sanitize the title, resolve the page
ResolveTask(t) ==
    /\ wpc[t] = "resolve"
    /\ IF ~tasks[t].has_url \/ ~tasks[t].has_title
       THEN \* KeyError at line 292 or 293
            /\ Completes(t, "raised")
            /\ UNCHANGED calls
       ELSE \E now \in Clock, page \in WorkerPages :
              LET urls == extract_urls(page)
                  original_url == JStr(tasks[t].url)
                  log == IF urls.err = "none" THEN <<>>
                         ELSE <<Event("log_resolve_error", original_url)>>
              IN /\ loc' = [loc EXCEPT ![t] =
                               [safe_title |-> sanitize_filename(tasks[t].title, now),
                                url |-> MediaUrl(urls.src, original_url),
                                caption_url |-> urls.cap,
                                caption_path |-> <<>>,
                                total |-> NoTotal]]
                 /\ calls' = [calls EXCEPT ![t] =
                                 @ \o <<Event("GET_page", original_url)>> \o log]
                 /\ wpc' = [wpc EXCEPT ![t] =
                               IF WantsCaption(urls.cap) THEN "caption" ELSE "check"]
                 /\ UNCHANGED fut
    /\ UNCHANGED <<tasks, max_workers, videos, subs, mpc, success, aggregated, summary, proc>>
    /\ UNCHANGED <<findVars, resolverVars, runnerVars, namerVars>>

\* download_caption, lines 125-131
CaptionCheck(t) ==
    /\ wpc[t] = "caption"
    /\ \E now \in Clock :
          LET output_path == sanitize_filename(FirstThree(tasks[t].title), now)
          IN /\ loc' = [loc EXCEPT ![t].caption_path = output_path]
             /\ wpc' = [wpc EXCEPT ![t] =
                           IF PathExists(subs, output_path) THEN "check" ELSE "capfetch"]
    /\ UNCHANGED <<tasks, max_workers, videos, subs, mpc, success, aggregated, summary,
                   fut, proc, calls>>
    /\ UNCHANGED <<findVars, resolverVars, runnerVars, namerVars>>

\* download_caption, lines 133-144: the GET succeeds and the file is
\* written, or it raises and the handler returns False
CaptionFetch(t) ==
    /\ wpc[t] = "capfetch"
    /\ calls' = [calls EXCEPT ![t] = Append(@, Event("GET_caption", loc[t].caption_url))]
    /\ \/ subs' = [subs EXCEPT ![loc[t].caption_path].writers = Append(@, t)]
       \/ subs' = subs
    /\ wpc' = [wpc EXCEPT ![t] = "check"]
    /\ UNCHANGED <<tasks, max_workers, videos, mpc, success, aggregated, summary,
                   fut, loc, proc>>
    /\ UNCHANGED <<findVars, resolverVars, runnerVars, namerVars>>

\* A plausible slip: the existence test at 307-309 is missing.
CheckOutputMissing(t) ==
    /\ wpc[t] = "check"
    /\ wpc' = [wpc EXCEPT ![t] = "probe"]
    /\ UNCHANGED <<tasks, max_workers, videos, subs, mpc, success, aggregated, summary,
                   fut, loc, proc, calls>>
    /\ UNCHANGED <<findVars, resolverVars, runnerVars, namerVars>>

\* lines 302-309
CheckOutput(t) ==
    /\ wpc[t] = "check"
    /\ IF PathExists(videos, loc[t].safe_title)
       THEN /\ calls' = [calls EXCEPT ![t] =
                            Append(@, Event("log_exists", JStr("")))]
            /\ Completes(t, "false")
       ELSE /\ wpc' = [wpc EXCEPT ![t] = "probe"]
            /\ UNCHANGED <<fut, loc, calls>>
    /\ UNCHANGED <<tasks, max_workers, videos, subs, mpc, success, aggregated, summary, proc>>
    /\ UNCHANGED <<findVars, resolverVars, runnerVars, namerVars>>

\* run_ffmpeg_command lines 232-235 with get_total_duration
ProbeDuration(t) ==
    /\ wpc[t] = "probe"
    /\ \E probe \in ProbeOutcomes :
          LET total == get_total_duration(probe)
              log == IF total.none THEN <<Event("log_probe_failed", loc[t].url)>> ELSE <<>>
          IN /\ calls' = [calls EXCEPT ![t] = @ \o <<Event("probe", loc[t].url)>> \o log]
             /\ IF DurationIsNone(total)
                THEN Completes(t, "false")
                ELSE /\ loc' = [loc EXCEPT ![t].total = total]
                     /\ wpc' = [wpc EXCEPT ![t] = "spawn"]
                     /\ UNCHANGED fut
    /\ UNCHANGED <<tasks, max_workers, videos, subs, mpc, success, aggregated, summary, proc>>
    /\ UNCHANGED <<findVars, resolverVars, runnerVars, namerVars>>

\* run_ffmpeg_command lines 237-255: Popen starts `ffmpeg -i url ... -y
\* output_path`, or raises and the handler at 282 returns False
StartTranscode(t) ==
    /\ wpc[t] = "spawn"
    /\ \/ /\ proc' = [proc EXCEPT ![t] =
                         [state |-> "running", path |-> loc[t].safe_title, rc |-> 0]]
          /\ calls' = [calls EXCEPT ![t] = Append(@, Event("transcode", loc[t].url))]
          /\ wpc' = [wpc EXCEPT ![t] = "drain"]
          /\ UNCHANGED <<fut, loc>>
       \/ /\ Completes(t, "false")
          /\ UNCHANGED <<proc, calls>>
    /\ UNCHANGED <<tasks, max_workers, videos, subs, mpc, success, aggregated, summary>>
    /\ UNCHANGED <<findVars, resolverVars, runnerVars, namerVars>>

\* the transcode process opens its output (-y: it overwrites)
ProcWrites(t) ==
    /\ proc[t].state = "running"
    /\ proc' = [proc EXCEPT ![t].state = "writing"]
    /\ videos' = [videos EXCEPT ![proc[t].path].writers = Append(@, t)]
    /\ UNCHANGED <<tasks, max_workers, subs, mpc, success, aggregated, summary,
                   fut, wpc, loc, calls>>
    /\ UNCHANGED <<findVars, resolverVars, runnerVars, namerVars>>

\* the transcode process exits; it exits 0 only with its output written
ProcExits(t) ==
    /\ proc[t].state \in {"running", "writing"}
    /\ \E rc \in ExitCodes :
          /\ rc = 0 => proc[t].state = "writing"
          /\ proc' = [proc EXCEPT ![t].state = "exited", ![t].rc = rc]
    /\ UNCHANGED <<tasks, max_workers, videos, subs, mpc, success, aggregated, summary,
                   fut, wpc, loc, calls>>
    /\ UNCHANGED <<findVars, resolverVars, runnerVars, namerVars>>

\* run_ffmpeg_command lines 257-284: the loop over the process's stderr
\* lines, then wait(); an exception in the loop returns False at once, with
\* the process still running
DrainAndWait(t) ==
    /\ wpc[t] = "drain"
    /\ \E exc \in {read_lines(lines, 1, loc[t].total.secs, PbarStart).exc :
                      lines \in StderrOutputs} :
          IF exc
          THEN Completes(t, "false")
          ELSE /\ proc[t].state = "exited"
               /\ Completes(t, IF ReturnValue(proc[t].rc) THEN "true" ELSE "false")
    /\ UNCHANGED <<tasks, max_workers, videos, subs, mpc, success, aggregated, summary,
                   proc, calls>>
    /\ UNCHANGED <<findVars, resolverVars, runnerVars, namerVars>>

\* lines 346-353: as_completed yields a finished future; the loop body
\* counts a success, or logs the task's title in the handler - and the
\* handler's own task['title'] raises KeyError for a task without a title
CollectResult(t) ==
    /\ mpc = "collect"
    /\ Finished(t)
    /\ t \notin aggregated
    /\ IF fut[t] = "raised" /\ ~tasks[t].has_title
       THEN /\ mpc' = "unwind"
            /\ UNCHANGED <<success, aggregated>>
       ELSE /\ aggregated' = aggregated \cup {t}
            /\ success' = IF fut[t] = "true" THEN success + 1 ELSE success
            /\ UNCHANGED mpc
    /\ UNCHANGED <<tasks, max_workers, videos, subs, summary, fut, wpc, loc, proc, calls>>
    /\ UNCHANGED <<findVars, resolverVars, runnerVars, namerVars>>

\* the loop is over, the executor is shut down, line 355 logs the summary
LogSummary ==
    /\ mpc = "collect"
    /\ aggregated = TaskIds
    /\ summary' = <<success, Len(tasks)>>
    /\ mpc' = "done"
    /\ UNCHANGED <<tasks, max_workers, videos, subs, success, aggregated,
                   fut, wpc, loc, proc, calls>>
    /\ UNCHANGED <<findVars, resolverVars, runnerVars, namerVars>>

\* an exception leaves the `with` block: shutdown(wait=True) lets every
\* submitted task finish, then the exception leaves run()
ExceptionLeavesRun ==
    /\ mpc = "unwind"
    /\ \A t \in TaskIds : Finished(t)
    /\ mpc' = "escaped"
    /\ UNCHANGED <<tasks, max_workers, videos, subs, success, aggregated, summary,
                   fut, wpc, loc, proc, calls>>
    /\ UNCHANGED <<findVars, resolverVars, runnerVars, namerVars>>

Next ==
    \/ SubmitAll
    \/ LogSummary
    \/ ExceptionLeavesRun
    \/ \E t \in TaskIds :
          \/ WorkerTakes(t)
          \/ ResolveTask(t)
          \/ CaptionCheck(t)
          \/ CaptionFetch(t)
          \/ CheckOutput(t)
          \/ ProbeDuration(t)
          \/ StartTranscode(t)
          \/ ProcWrites(t)
          \/ ProcExits(t)
          \/ DrainAndWait(t)
          \/ CollectResult(t)

Spec == Init /\ [][Next]_vars

\* run() on a task file that holds exactly one task
InitStream == Init /\ Len(tasks) = 1 /\ max_workers = 1
SpecStream == InitStream /\ [][Next]_vars

\* ------------------------------------- claims about run and download_stream
FilePresent(f) == f.pre \/ f.writers # <<>>
WroteVideo(t) == \E pth \in VideoPaths : \E i \in DOMAIN videos[pth].writers : videos[pth].writers[i] = t
IsRunnable(t) == tasks[t].has_url /\ tasks[t].has_title
PreExisting(t) == \E now \in Clock : videos[sanitize_filename(tasks[t].title, now)].pre
PageUrl(t) == JStr(tasks[t].url)

\* C1: when download_stream raises for one task, every task is still
\* processed to an outcome and aggregated, and run reaches its summary.
C1_TaskExceptionIsContained ==
    (\E t \in TaskIds : fut[t] = "raised") =>
        /\ mpc \notin {"unwind", "escaped"}
        /\ mpc = "done" =>
              /\ summary # <<>>
              /\ aggregated = TaskIds
              /\ \A t \in TaskIds : Finished(t)
              /\ summary[1] = Cardinality({t \in TaskIds : fut[t] = "true"})

\* C2: a task that finds a file at its output path when it performs the
\* existence check returns (task, False) in that step, with no probe and no
\* transcode, and leaves the directory as it was; it does nothing afterwards.
C2_ExistingOutputSkips ==
    [][\A t \in TaskIds :
          /\ (wpc[t] = "check" /\ wpc'[t] # "check" /\ FilePresent(videos[loc[t].safe_title])) =>
                /\ fut'[t] = "false"
                /\ wpc'[t] = "done"
                /\ videos' = videos
                /\ proc'[t] = NoProcess
                /\ \A i \in DOMAIN calls'[t] : calls'[t][i].op \notin {"probe", "transcode"}
          /\ HasOp(t, "log_exists") =>
                /\ calls'[t] = calls[t]
                /\ proc'[t] = proc[t]
                /\ fut'[t] = fut[t]]_vars

\* C2 witness: a task was skipped because its output file existed.
C2_Witness ==
    \E t \in TaskIds :
        /\ HasOp(t, "log_exists")
        /\ fut[t] = "false"
        /\ ~HasOp(t, "probe")
        /\ ~WroteVideo(t)

\* C3 as stated: a task whose output file existed before the run ends with
\* success = false without a page fetch and without a caption fetch.
C3_SkipMakesNoNetworkCall ==
    \A t \in TaskIds :
        (wpc[t] = "done" /\ IsRunnable(t) /\ PreExisting(t)) =>
            /\ fut[t] = "false"
            /\ ~HasOp(t, "GET_page")
            /\ ~HasOp(t, "GET_caption")

\* C3 amended: a task whose output file existed before the run ends with
\* success = false and starts neither the probe nor the transcode; the page
\* fetch (and the caption fetch the page asks for) comes before the skip.
C3_SkipAfterPageFetch ==
    \A t \in TaskIds :
        (wpc[t] = "done" /\ IsRunnable(t) /\ PreExisting(t)) =>
            /\ fut[t] = "false"
            /\ ~HasOp(t, "probe")
            /\ ~HasOp(t, "transcode")
            /\ calls[t][1].op = "GET_page"
            /\ calls[t][Len(calls[t])].op = "log_exists"

\* C3 witness: a skipped task had fetched its page and its caption.
C3_Witness ==
    \E t \in TaskIds :
        /\ wpc[t] = "done" /\ IsRunnable(t) /\ PreExisting(t)
        /\ fut[t] = "false"
        /\ HasOp(t, "GET_page")
        /\ HasOp(t, "GET_caption")

\* C5: when page resolution fails, download_stream does not raise, makes no
\* caption fetch, goes on to the existence check and the probe, and gives the
\* page URL to the probe and to the transcode.
C5_FailedResolutionFallsBack ==
    \A t \in TaskIds :
        HasOp(t, "log_resolve_error") =>
            /\ fut[t] # "raised"
            /\ ~HasOp(t, "GET_caption")
            /\ \A i \in DOMAIN calls[t] :
                  calls[t][i].op \in {"probe", "transcode"} => calls[t][i].arg = PageUrl(t)
            /\ wpc[t] \notin {"resolve", "caption", "capfetch"}
            /\ wpc[t] = "done" => (HasOp(t, "probe") \/ HasOp(t, "log_exists"))

\* C5 witness: after a failed resolution the transcode ran on the page URL.
C5_Witness ==
    \E t \in TaskIds :
        /\ HasOp(t, "log_resolve_error")
        /\ \E i \in DOMAIN calls[t] :
              calls[t][i].op = "transcode" /\ calls[t][i].arg = PageUrl(t)

\* C8: the transcode is started only after the probe, and a probe that
\* yields no duration ends the call at once with False: no transcode process,
\* no output written by the task.
C8_ProbeGatesTranscode ==
    \A t \in TaskIds :
        /\ \A i \in DOMAIN calls[t] :
              calls[t][i].op = "transcode" =>
                  \E j \in 1..(i - 1) : calls[t][j].op = "probe"
        /\ HasOp(t, "log_probe_failed") =>
              /\ wpc[t] = "done"
              /\ fut[t] = "false"
              /\ ~HasOp(t, "transcode")
              /\ proc[t] = NoProcess
              /\ ~WroteVideo(t)

\* C8 witness: a probe found no duration and the task ended unsuccessful.
C8_Witness ==
    \E t \in TaskIds :
        /\ HasOp(t, "log_probe_failed")
        /\ fut[t] = "false"
        /\ ~HasOp(t, "transcode")

\* ------------------------------------------------- claims about find_source
\* The values of the "source" keys in the order the traversal meets them: a
\* mapping's own "source" key first, then its values (the items of a list) in
\* order.  Nothing below a mapping that has a "source" key is visited.
RECURSIVE SourceCandidates(_)
RECURSIVE SourceCandidatesOf(_, _)
SourceCandidatesOf(kv, i) ==
    IF i > Len(kv) THEN <<>>
    ELSE SourceCandidates(kv[i].val) \o SourceCandidatesOf(kv, i + 1)

SourceCandidates(obj) ==
    IF obj.t = "dict" /\ HasKey(obj, "source") THEN <<Get(obj, "source")>>
    ELSE IF obj.t \in {"dict", "list"} THEN SourceCandidatesOf(obj.kv, 1)
    ELSE <<>>

FirstOrNone(seq) == IF seq = <<>> THEN None ELSE seq[1]

FirstTruthyOrNone(seq) ==
    IF \E i \in DOMAIN seq : Truthy(seq[i])
    THEN seq[CHOOSE i \in DOMAIN seq :
                 Truthy(seq[i]) /\ \A j \in 1..(i - 1) : ~Truthy(seq[j])]
    ELSE None

RootHasSource == data.t = "dict" /\ HasKey(data, "source")

\* C6 as stated: find_source returns the value of the first "source" key met
\* in depth-first order, whatever its truth value.
C6_FirstSourceKeyWins ==
    fpc = "returned" => found = FirstOrNone(SourceCandidates(data))

\* C6 amended: a "source" key of the root mapping is returned whatever its
\* value; below the root, "source" values that are falsy are passed over and
\* the first truthy one in traversal order is returned, None when there is none.
C6_FirstTruthySourceWins ==
    fpc = "returned" =>
        found = IF RootHasSource THEN Get(data, "source")
                ELSE FirstTruthyOrNone(SourceCandidates(data))

\* C6 witness: a nested falsy "source" came first and a later one was returned.
C6_Witness ==
    /\ fpc = "returned"
    /\ ~RootHasSource
    /\ Len(SourceCandidates(data)) >= 2
    /\ ~Truthy(SourceCandidates(data)[1])
    /\ Truthy(found)
    /\ found # SourceCandidates(data)[1]

\* ------------------------------------------------ claims about extract_urls
\* what each search finds in block i taken alone (None when the block does
\* not parse or the search fails on it)
BlockSource(b) == IF b.kind = "json" THEN find_source(b.data) ELSE None
BlockCaption(b) ==
    IF b.kind = "json" /\ ~IsExc(find_captions(b.data)) THEN find_captions(b.data) ELSE None

FirstIndex(P(_), n) ==
    IF \E i \in 1..n : P(i) THEN CHOOSE i \in 1..n : P(i) /\ \A j \in 1..(i - 1) : ~P(j)
    ELSE 0

FirstSourceBlock ==
    LET P(i) == Truthy(BlockSource(resp.blocks[i])) IN FirstIndex(P, Len(resp.blocks))
FirstCaptionBlock ==
    LET P(i) == Truthy(BlockCaption(resp.blocks[i])) IN FirstIndex(P, Len(resp.blocks))

\* C4: a block that fails to parse or fails while being searched does not
\* end the scan: a source or caption URL another block holds is returned.
C4_FailingBlockDoesNotAbortScan ==
    (rpc = "returned" /\ resp.status = "ok") =>
        /\ FirstSourceBlock # 0 => Truthy(ret[1])
        /\ FirstCaptionBlock # 0 => Truthy(ret[2])

\* C7: the pair returned is (first source found, first caption found) in
\* block order, and no block after the one that completes the pair is scanned.
C7_FirstFoundWinsPerField ==
    (rpc = "returned" /\ resp.status = "ok") =>
        /\ FirstSourceBlock # 0 => ret[1] = BlockSource(resp.blocks[FirstSourceBlock])
        /\ FirstCaptionBlock # 0 => ret[2] = BlockCaption(resp.blocks[FirstCaptionBlock])
        /\ (FirstSourceBlock # 0 /\ FirstCaptionBlock # 0) =>
               scanned = IF FirstSourceBlock > FirstCaptionBlock
                         THEN FirstSourceBlock ELSE FirstCaptionBlock

\* ---------------------------------------- claims about run_ffmpeg_command
InRange(r) == r.num >= 0 /\ r.num <= 100 * r.den
Leq(a, b) == a.num * b.den <= b.num * a.den

\* C10: every percentage given to the progress bar lies in [0,100], and the
\* values given for one task never decrease.
C10_ProgressClampedAndMonotonic ==
    /\ \A i \in DOMAIN published : InRange(published[i])
    /\ \A i, j \in DOMAIN published : i < j => Leq(published[i], published[j])

\* C9: once the probe has given a duration, the call returns after the
\* process has exited, true exactly when the exit code is 0; only an exception
\* while spawning or reading the process makes it return false early.
C9_ReturnFollowsExitCode ==
    (fpos = "returned" /\ ~total_duration.none) =>
        IF raised \in {"spawn", "decode"}
        THEN ok = FALSE
        ELSE process = "exited" /\ ok = (return_code = 0)

\* ------------------------------------------------- claims about the pool
SucceededTasks == {t \in TaskIds : fut[t] = "true"}
RunEnded == mpc \in {"done", "escaped"}

\* a step of the aggregating thread: the body of the as_completed loop runs
\* for one finished future that was not yet aggregated, no worker moves
AggregatorStep ==
    /\ mpc = "collect"
    /\ wpc' = wpc /\ fut' = fut
    /\ \E t \in TaskIds : Finished(t) /\ t \notin aggregated /\ aggregated' = aggregated \cup {t}

SummaryIsFinal ==
    summary # <<>> =>
        /\ \A t \in TaskIds : Finished(t)
        /\ aggregated = TaskIds
        /\ summary[1] = Cardinality(SucceededTasks)
        /\ summary[2] = Len(tasks)
        /\ summary[1] <= summary[2]

EveryOutcomeAggregated ==
    (RunEnded /\ tasks # <<>>) => (aggregated = TaskIds /\ summary # <<>>)

\* C11: for every task list, pool size and completion order, run aggregates
\* each task's outcome exactly once, only the aggregating thread writes the
\* success counter, and the summary is logged after all tasks have finished
\* with succeeded = number of tasks that returned true and
\* succeeded + failed = total.
C11_AggregationIsExactAndSingleWriter ==
    /\ [](SummaryIsFinal /\ EveryOutcomeAggregated)
    /\ [][success' # success => AggregatorStep]_vars

\* the same statement over task lists in which every task has a title
C11_HoldsWhenTitled ==
    \/ \E t \in TaskIds : ~tasks[t].has_title
    \/ (SummaryIsFinal /\ EveryOutcomeAggregated)

\* -------------------------------------------------------------- SpecNamer
\* The two file names one task's title gives: safe_title of download_stream
\* (line 294) and the caption file name of download_caption (lines 126-127).
TitleChars == {"a", "b", " ", ".", ":", FullWidthBar}

InitNamer ==
    /\ \E n \in 0..MaxTitle : title \in [1..n -> TitleChars]
    /\ npc = "call"
    /\ safe_title = <<>>
    /\ caption_file = <<>>
    /\ FindIdle /\ ResolverIdle /\ RunnerIdle /\ PoolIdle

NameFiles ==
    /\ npc = "call"
    /\ \E now \in Clock :
          /\ safe_title' = sanitize_filename(title, now)
          /\ caption_file' = CaptionFileName(title, now)
    /\ npc' = "returned"
    /\ UNCHANGED <<title, findVars, resolverVars, runnerVars, poolVars>>

NextNamer == NameFiles

SpecNamer == InitNamer /\ [][NextNamer]_vars

\* C12: for every title, the caption file name is the first three characters
\* of the sanitized title followed by .vtt, that is
\* sanitize_filename(title[:3]) = sanitize_filename(title)[:3].
C12_CaptionNameIsPrefixOfSafeTitle ==
    npc = "returned" => caption_file = FirstThree(safe_title) \o <<".vtt">>

\* the same statement over titles whose first three characters are not
\* touched by strip('. '): non-empty, neither starting nor ending in one
PrefixNotStripped ==
    /\ title # <<>>
    /\ Head(title) \notin StripChars
    /\ FirstThree(title)[Len(FirstThree(title))] \notin StripChars
C12_HoldsWhenPrefixNotStripped ==
    (npc = "returned" /\ PrefixNotStripped) =>
        caption_file = FirstThree(safe_title) \o <<".vtt">>

\* ------------------------------------- claims about shared output paths
TranscodesFor(pth) == {t \in TaskIds : proc[t].state # "none" /\ proc[t].path = pth}
OneTranscodePerPath == \A pth \in VideoPaths : Cardinality(TranscodesFor(pth)) <= 1
NoOverwrite ==
    \A pth \in VideoPaths :
        /\ Len(videos[pth].writers) <= 1
        /\ videos[pth].pre => videos[pth].writers = <<>>

\* C13: under every interleaving of the pool's workers, at most one transcode
\* process is ever started for an output path: of two tasks whose titles
\* sanitize to the same name the existence check lets at most one reach the
\* transcode, so no task overwrites a file another task produces or produced.
C13_OneTranscodePerOutputPath == OneTranscodePerPath /\ NoOverwrite

\* what the existence check does give: a file present before run is not
\* written, and tasks with a path of their own never share a transcode
C13_PreExistingNeverWritten ==
    \A pth \in VideoPaths : videos[pth].pre => videos[pth].writers = <<>>
C13_HoldsForDistinctPaths ==
    (\A t, u \in TaskIds : (t # u /\ IsRunnable(t) /\ IsRunnable(u)) => tasks[t].title # tasks[u].title)
        => C13_OneTranscodePerOutputPath


====
